---- MODULE Spec2Model ----
(***************************************************************************)
(* A model of the `layouts` library (Layouts.prototype.* in                *)
(* src/unnamed/part_001): the template cache, the instance options, the    *)
(* layout-stack resolver loop (createStack), the fold over the stack       *)
(* (stack) and the final substitution (render).                            *)
(*                                                                         *)
(* JavaScript values are modelled as strings.  A JavaScript string is the  *)
(* TLA+ string itself; the non-string values carry a leading "#":          *)
(*   "#undefined"  "#null"  "#true"  "#false"  "#0"                        *)
(* so that the string 'false' and the boolean false stay distinct.         *)
(* A template content is a sequence of tokens: a token is either a body    *)
(* tag as written ("{%= body %}" or, with no inner spaces, "{%=body%}")    *)
(* or a piece of literal text.                                             *)
(***************************************************************************)
EXTENDS Naturals, Sequences, FiniteSets, TLC

VARIABLES
    cache,     \* this.cache: name -> template record
    options,   \* this.options: defaultLayout and locals
    regex,     \* whether this.regex has been set
    pc,        \* "idle", or "loop" inside createStack
    call,      \* the arguments of the call in progress
    name,      \* createStack's `name`
    prev,      \* createStack's `prev`
    stack,     \* createStack's `stack`
    opts,      \* createStack's `opts` (its defaultLayout)
    ret,       \* what the last call returned
    first      \* history: the first stack()/render()/createStack() result
               \* since the store last changed ("off": not recorded)

vars == <<cache, options, regex, pc, call, name, prev, stack, opts, ret, first>>

----------------------------------------------------------------------------
(* Bounds and input sets *)

\* The resolver loop has no bound of its own; the model stops unrolling it here.
MaxStack == 4

Names == {"a", "base"}

Undefined == "#undefined"
Null == "#null"
True == "#true"
False == "#false"
Zero == "#0"

\* Values a caller may pass as the starting layout name.
StartValues ==
    {Undefined, True, False, Zero, "", "false", "null", "nil", "no",
     "a", "base"}

\* The starting names stack() is called with directly: the registered names
\* and none at all.
StackStarts == {Undefined, "a", "base"}

\* The defaultLayout a caller may configure (at construction or per call).
DefaultLayouts == {Undefined, "base"}

NoKeys == [k \in {} |-> Undefined]

PageContent == <<"<page>">>

----------------------------------------------------------------------------
(* JavaScript helpers *)

\* JavaScript truthiness of a value.
Truthy(v) == v \notin {Undefined, Null, False, Zero, ""}

\* The `falsey` package: the values that stand for "no".
isFalsey(v) ==
    v \in {Undefined, Null, False, Zero, "", "false", "null", "nil", "no"}

hasOwn(o, prop) == prop \in DOMAIN o

\* mixin-deep on two flat objects: the keys of both, the later one wins.
merge(o, src) ==
    [k \in (DOMAIN o) \cup (DOMAIN src) |->
        IF k \in DOMAIN src THEN src[k] ELSE o[k]]

\* omit-keys
omit(o, keys) == [k \in (DOMAIN o) \ keys |-> o[k]]

omitKeys == {"mergeFn", "content", "delims", "layout"}

----------------------------------------------------------------------------
(* Tag Builder *)

\* makeTag: delims[0], tag, delims[1] joined with a space.
makeTag == "{%= body %}"

\* makeRegex: the same three parts joined with \s*, so the tag matches with
\* or without the inner spaces.
makeRegex(tok) == tok \in {"{%= body %}", "{%=body%}"}

\* String.prototype.replace(regex /g, repl): every match is replaced, the
\* replacement text is not scanned again.  (The `$&`, `$1` patterns of a
\* replacement string are not modelled: no content here holds a `$`.)
RECURSIVE replace(_, _)
replace(content, repl) ==
    IF content = <<>> THEN <<>>
    ELSE (IF makeRegex(Head(content)) THEN repl ELSE <<Head(content)>>)
         \o replace(Tail(content), repl)

\* renderLayout: the template engine interpolates `body` with the tag made by
\* makeTag, and leaves literal text alone.
renderLayout(str) ==
    [i \in 1..Len(str) |-> IF makeRegex(str[i]) THEN makeTag ELSE str[i]]

----------------------------------------------------------------------------
(* Template Store *)

pickLayout(value, key) ==
    IF key = "layout" THEN "[object Object]"
    ELSE IF hasOwn(value.options, "layout") THEN value.options["layout"]
    ELSE IF hasOwn(value.locals, "layout") THEN value.locals["layout"]
    ELSE Null

\* The body of the reduce callback of setLayout.
attachLayout(value, key) ==
    LET layout == pickLayout(value, key)
    IN IF Truthy(layout) THEN [value EXCEPT !.layout = layout] ELSE value

\* merge(this.cache, template) for one record: a deep merge, key by key.
mergeTemplate(old, new) ==
    [layout  |-> IF new.layout # Undefined THEN new.layout ELSE old.layout,
     content |-> new.content,
     data    |-> merge(old.data, new.data),
     locals  |-> merge(old.locals, new.locals),
     options |-> merge(old.options, new.options)]

mergeCache(c, key, value) ==
    [k \in (DOMAIN c) \cup {key} |->
        IF k # key THEN c[k]
        ELSE IF key \in DOMAIN c THEN mergeTemplate(c[key], value) ELSE value]

----------------------------------------------------------------------------
(* Layout Resolver *)

\* assertLayout without the `value &&` guard in front of isFalsey.
assertLayoutUnguarded(value, defaultLayout) ==
    IF value = False \/ isFalsey(value) THEN Null
    ELSE IF ~Truthy(value) \/ value = True
         THEN (IF Truthy(defaultLayout) THEN defaultLayout ELSE Null)
    ELSE value

assertLayout(value, defaultLayout) ==
    IF value = False \/ (Truthy(value) /\ isFalsey(value)) THEN Null
    ELSE IF ~Truthy(value) \/ value = True
         THEN (IF Truthy(defaultLayout) THEN defaultLayout ELSE Null)
    ELSE value

\* template.layout || (template.data && template.data.layout)
layoutOf(template) ==
    IF Truthy(template.layout) THEN template.layout
    ELSE IF hasOwn(template.data, "layout") THEN template.data["layout"]
    ELSE Undefined

\* The condition of the while loop of createStack.
loopCond(c, n, p) == Truthy(n) /\ p # n /\ n \in DOMAIN c

\* stack.push(name) in place of stack.unshift(name).
push(stk, n) == stk \o <<n>>

\* stack.unshift(name)
unshift(stk, n) == <<n>> \o stk

----------------------------------------------------------------------------
(* Stack Folder *)

\* _mergeData: the template's locals and data, without the omitted keys, are
\* merged into the instance's own `locals` option.
mergeData(locals, template) ==
    merge(locals, omit(merge(merge(NoKeys, template.locals), template.data), omitKeys))

EmptyAcc == [hasContent |-> FALSE, content |-> <<>>, data |-> Undefined]

\* The reduce callback without the `|| tag` seed of the first iteration.
foldStepNoSeed(c, value, acc, locals) ==
    LET tmpl == c[value]
    IN [acc |-> [hasContent |-> TRUE,
                 content |-> renderLayout(replace(acc.content, tmpl.content)),
                 data |-> "this"],
        locals |-> mergeData(locals, tmpl)]

\* One call of the reduce callback of stack(): the accumulator and the
\* instance's locals after it.
foldStep(c, value, acc, locals) ==
    LET content == IF acc.hasContent /\ acc.content # <<>>
                   THEN acc.content ELSE <<makeTag>>
        tmpl == c[value]
    IN [acc |-> [hasContent |-> TRUE,
                 content |-> renderLayout(replace(content, tmpl.content)),
                 data |-> "this"],
        locals |-> mergeData(locals, tmpl)]

RECURSIVE foldStack(_, _, _, _)
foldStack(c, stk, acc, locals) ==
    IF stk = <<>> THEN [acc |-> acc, locals |-> locals]
    ELSE LET s == foldStep(c, Head(stk), acc, locals)
         IN foldStack(c, Tail(stk), s.acc, s.locals)

\* render() without the `if (layout.content)` guard.
renderContentUnguarded(layout, content) == replace(layout.content, content)

\* The last step of render(): the page goes into the folded layout.
renderContent(layout, content) ==
    IF layout.hasContent /\ layout.content # <<>>
    THEN replace(layout.content, content)
    ELSE content

----------------------------------------------------------------------------
(* Inputs of setLayout: what the loader hands back for one template *)

Contents(key) == {<<key, "{%=body%}", key>>, <<>>}

\* The data of a template: nothing, or a title of its own.
Titles(key) == {NoKeys, [title |-> IF key = "a" THEN "A" ELSE "B"]}

\* Templates whose layout reference, if any, is the top-level `layout`.
Templates(key) ==
    [layout : {Undefined} \cup Names, content : Contents(key), data : Titles(key),
     locals : {NoKeys}, options : {NoKeys}]

\* The same, all with a body tag in their content.
TaggedTemplates(key) == {t \in Templates(key) : t.content # <<>>}

\* Templates that also carry options.layout and locals.layout.
RichTemplates(key) ==
    [layout : {Undefined} \cup Names, content : {<<key, "{%=body%}", key>>},
     data : {NoKeys},
     locals : {NoKeys, [layout |-> "a"], [layout |-> "zz"]},
     options : {NoKeys, [layout |-> "base"], [layout |-> False]}]

----------------------------------------------------------------------------
(* State *)

NoCall == [op |-> "none", arg |-> Undefined, defaultLayout |-> Undefined]

NoTemplate ==
    [layout |-> Undefined, content |-> <<>>, data |-> NoKeys, locals |-> NoKeys,
     options |-> NoKeys]

\* A returned value: which call returned it (kind, call), the stack it
\* resolved, the accumulator stack() returned (layout), the content returned,
\* and the instance's `locals` at that moment.  For setLayout, `call.arg` and
\* `value` are the key and the template it was given.
Ret(kind, c, stk, acc, content, locals) ==
    [kind |-> kind, call |-> c, stack |-> stk, layout |-> acc,
     content |-> content, locals |-> locals, value |-> NoTemplate]

NoRet == Ret("none", NoCall, <<>>, EmptyAcc, <<>>, NoKeys)

Off == [NoRet EXCEPT !.kind = "off"]

\* new Layouts(options): the cache is empty, `locals` is {}.
Fresh ==
    /\ cache = [k \in {} |-> NoTemplate]
    /\ \E d \in DefaultLayouts : options = [defaultLayout |-> d, locals |-> NoKeys]
    /\ regex = FALSE
    /\ pc = "idle"
    /\ call = NoCall
    /\ name = Null
    /\ prev = Null
    /\ stack = <<>>
    /\ opts = [defaultLayout |-> Undefined]
    /\ ret = NoRet

\* The object a fold returns as `data`: _mergeData returns `this`, so it is the
\* Layouts instance itself, with the instance's own properties.
dataOf(acc) ==
    IF acc.data = "this"
    THEN [options |-> options, cache |-> cache, regex |-> regex]
    ELSE NoKeys

Init == Fresh /\ first = Off

InitRepeat == Fresh /\ first = NoRet

----------------------------------------------------------------------------
(* Operations *)

Locals == <<name, prev, stack, opts, call>>

\* setLayout(name, data, content)
SetLayout(key, value) ==
    /\ pc = "idle"
    /\ cache' = mergeCache(cache, key, attachLayout(value, key))
    /\ ret' = [Ret("this", [NoCall EXCEPT !.arg = key], <<>>, EmptyAcc, <<>>, NoKeys)
                  EXCEPT !.value = value]
    /\ first' = IF first = Off THEN Off ELSE NoRet
    /\ UNCHANGED <<options, regex, pc, Locals>>

\* getLayout(key): the record, or the whole cache when key is falsy.
GetLayout(key) ==
    /\ pc = "idle"
    /\ ret' = Ret(IF ~Truthy(key) THEN "cache"
                  ELSE IF key \in DOMAIN cache THEN "record" ELSE "undefined",
                  [NoCall EXCEPT !.arg = key], <<>>, EmptyAcc, <<>>, NoKeys)
    /\ UNCHANGED <<cache, options, regex, pc, Locals, first>>

\* The entry of createStack (lines 306-311), reached directly or through
\* stack() and render().
Enter(op, arg, d) ==
    /\ pc = "idle"
    /\ call' = [op |-> op, arg |-> arg, defaultLayout |-> d]
    /\ opts' = [defaultLayout |->
                   IF d # Undefined THEN d ELSE options.defaultLayout]
    /\ name' = assertLayout(arg, options.defaultLayout)
    /\ stack' = <<>>
    /\ prev' = Null
    /\ pc' = "loop"
    /\ ret' = NoRet
    /\ UNCHANGED <<cache, options, regex, first>>

CreateStack(arg, d) == Enter("createStack", arg, d)

Stack(arg, d) == Enter("stack", arg, d)

Render(arg, d) == Enter("render", arg, d)

\* One pass of the while loop of createStack.
LoopStep ==
    /\ pc = "loop"
    /\ loopCond(cache, name, prev)
    /\ Len(stack) < MaxStack
    /\ stack' = unshift(stack, name)
    /\ prev' = name
    /\ name' = assertLayout(layoutOf(cache[name]), opts.defaultLayout)
    /\ UNCHANGED <<cache, options, regex, pc, call, opts, ret, first>>

Leave ==
    /\ pc' = "idle"
    /\ call' = NoCall
    /\ name' = Null
    /\ prev' = Null
    /\ stack' = <<>>
    /\ opts' = [defaultLayout |-> Undefined]
    /\ first' = IF first = NoRet THEN ret' ELSE first

\* createStack returns its stack to the caller.
ReturnStack ==
    /\ pc = "loop"
    /\ ~loopCond(cache, name, prev)
    /\ call.op = "createStack"
    /\ ret' = Ret("createStack", call, stack, EmptyAcc, <<>>, NoKeys)
    /\ Leave
    /\ UNCHANGED <<cache, options, regex>>

\* stack() with a reduce callback that writes the folded content back to the
\* template it read (tmpl.content = content).
ReturnFoldWritesTemplate ==
    /\ pc = "loop"
    /\ ~loopCond(cache, name, prev)
    /\ call.op \in {"stack", "render"}
    /\ LET folded == foldStack(cache, stack, EmptyAcc, options.locals)
       IN /\ options' = [defaultLayout |-> opts.defaultLayout,
                         locals |-> folded.locals]
          /\ ret' = Ret(call.op, call, stack, folded.acc,
                        IF call.op = "render"
                        THEN renderContent(folded.acc, PageContent)
                        ELSE folded.acc.content,
                        folded.locals)
          /\ cache' = [k \in DOMAIN cache |->
                          IF stack # <<>> /\ k = stack[Len(stack)]
                          THEN [cache[k] EXCEPT !.content = folded.acc.content]
                          ELSE cache[k]]
    /\ regex' = TRUE
    /\ Leave

\* The rest of stack() after createStack (lines 345-365): the call's options
\* are merged into this.options, this.regex is set, the stack is folded.
\* render() then puts the page into the folded content (lines 456-460).
ReturnFold ==
    /\ pc = "loop"
    /\ ~loopCond(cache, name, prev)
    /\ call.op \in {"stack", "render"}
    /\ LET folded == foldStack(cache, stack, EmptyAcc, options.locals)
       IN /\ options' = [defaultLayout |-> opts.defaultLayout,
                         locals |-> folded.locals]
          /\ ret' = Ret(call.op, call, stack, folded.acc,
                        IF call.op = "render"
                        THEN renderContent(folded.acc, PageContent)
                        ELSE folded.acc.content,
                        folded.locals)
    /\ regex' = TRUE
    /\ Leave
    /\ UNCHANGED cache

Next ==
    \/ \E key \in Names : \E value \in Templates(key) : SetLayout(key, value)
    \/ \E key \in Names \cup {Undefined} : GetLayout(key)
    \/ \E arg \in StartValues : \E d \in DefaultLayouts : CreateStack(arg, d)
    \/ \E arg \in StackStarts : \E d \in DefaultLayouts : Stack(arg, d)
    \/ \E arg \in StartValues : \E d \in DefaultLayouts : Render(arg, d)
    \/ LoopStep
    \/ ReturnStack
    \/ ReturnFold

Spec == Init /\ [][Next]_vars

\* The store alone, with templates that name their layout in several places.
NextStore ==
    \/ \E key \in Names : \E value \in RichTemplates(key) : SetLayout(key, value)
    \/ \E key \in Names \cup {Undefined} : GetLayout(key)

SpecStore == Init /\ [][NextStore]_vars

\* Repeated calls: the first result since the store last changed is recorded.
NextRepeat ==
    \/ \E key \in Names : \E value \in TaggedTemplates(key) : SetLayout(key, value)
    \/ \E arg \in StackStarts : \E d \in DefaultLayouts : CreateStack(arg, d)
    \/ \E arg \in StackStarts : \E d \in DefaultLayouts : Stack(arg, d)
    \/ \E arg \in StackStarts : \E d \in DefaultLayouts : Render(arg, d)
    \/ LoopStep
    \/ ReturnStack
    \/ ReturnFold

SpecRepeat == InitRepeat /\ [][NextRepeat]_vars

----------------------------------------------------------------------------
(* Properties *)

\* A stack(), render() or createStack() call has returned.
Returned == ret.kind \in {"createStack", "stack", "render"}

\* createStack has just resolved its starting name (line 307).
Entered == pc = "loop" /\ prev = Null /\ stack = <<>>

\* The defaultLayout the loop of the returned call used (opts.defaultLayout).
UsedDefault ==
    IF ret.call.defaultLayout # Undefined
    THEN ret.call.defaultLayout ELSE options.defaultLayout

Distinct(s) == \A i, j \in 1..Len(s) : i # j => s[i] # s[j]

\* C1: the resolver loop never takes more steps than the store has entries
\* (the stack holds one name per step taken).
C1_LoopStepsBounded == Len(stack) <= Cardinality(DOMAIN cache)

FalseyValues == {False, "", "false", "null", "nil", "no", Zero}

C8_StackDistinctRegistered ==
    /\ Distinct(stack) /\ \A i \in 1..Len(stack) : stack[i] \in DOMAIN cache
    /\ Distinct(ret.stack)
    /\ \A i \in 1..Len(ret.stack) : ret.stack[i] \in DOMAIN cache

HasTag(content) == \E i \in 1..Len(content) : makeRegex(content[i])

\* The page inside the last layout of the stack, that inside the one before
\* it, and so on to the first.
RECURSIVE NestOver(_, _, _)
NestOver(c, stk, page) ==
    IF stk = <<>> THEN page
    ELSE replace(c[Head(stk)].content, NestOver(c, Tail(stk), page))

\* C3: with x.layout = y, y without a layout and no default layout, resolving
\* x gives the stack <<y, x>> and render gives y's content around x's content
\* around the page; in general the content rendered over a stack of layouts
\* that each hold a body tag is the page nested in them, last to first.
C3_ChainNests ==
    Returned =>
      /\ \A x, y \in Names :
            (/\ ~Truthy(UsedDefault)
             /\ x # y /\ ret.call.arg = x /\ {x, y} \subseteq DOMAIN cache
             /\ layoutOf(cache[x]) = y /\ layoutOf(cache[y]) = Undefined)
            => /\ ret.stack = <<y, x>>
               /\ (ret.kind = "render" /\ HasTag(cache[x].content)
                                       /\ HasTag(cache[y].content))
                  => ret.content =
                        replace(cache[y].content,
                                replace(cache[x].content, PageContent))
      /\ (ret.kind = "render"
          /\ \A i \in 1..Len(ret.stack) : HasTag(cache[ret.stack[i]].content))
         => ret.content = NestOver(cache, ret.stack, PageContent)

C3_Witness ==
    /\ ret.kind = "render" /\ ret.call.arg = "a" /\ ret.stack = <<"base", "a">>
    /\ ret.content = <<"base", "a", "<page>", "a", "base">>

\* C4: resolving the name of a registered template that has no layout
\* reference gives an empty stack, and rendering with it gives the page back.
C4_NoLayoutEmptyStack ==
    \A x \in Names :
        (Returned /\ ret.call.arg = x /\ x \in DOMAIN cache
         /\ layoutOf(cache[x]) = Undefined)
        => /\ ret.stack = <<>>
           /\ ret.kind = "render" => ret.content = PageContent

\* C4, amended: with no default layout in effect, resolving the name of a
\* registered template that has no layout reference gives the stack of that
\* one name, and render gives the template's content with its body tag
\* replaced by the page (the page itself when the template's content is
\* empty); the empty stack and the unchanged page are what the absent
\* reference itself (undefined) resolves to.
C4_NoLayoutOwnStack ==
    (Returned /\ ~Truthy(UsedDefault)) =>
      /\ \A x \in Names :
            (ret.call.arg = x /\ x \in DOMAIN cache
             /\ layoutOf(cache[x]) = Undefined)
            => /\ ret.stack = <<x>>
               /\ ret.kind = "render" =>
                     ret.content = IF cache[x].content # <<>>
                                   THEN replace(cache[x].content, PageContent)
                                   ELSE PageContent
      /\ (ret.call.arg = Undefined /\ ret.call.defaultLayout = Undefined)
            => /\ ret.stack = <<>>
               /\ ret.kind = "render" => ret.content = PageContent

C4_Witness ==
    /\ ret.kind = "render" /\ ret.call.arg = "a" /\ ~Truthy(UsedDefault)
    /\ "a" \in DOMAIN cache /\ layoutOf(cache["a"]) = Undefined
    /\ ret.stack = <<"a">> /\ ret.content = <<"a", "<page>", "a">>

\* C9: a reference to a name without a record ends the resolution silently:
\* the returned stack holds registered names only, each the layout of the one
\* after it, starting from the resolved starting name; a starting name
\* without a record (or resolving to null) gives the empty stack, and render
\* then returns the page unchanged.
C9_MissingStopsSilently ==
    Returned =>
      LET s == ret.stack
          n == Len(ret.stack)
      IN /\ \A i \in 1..n : s[i] \in DOMAIN cache
         /\ \A i \in 1..n :
               i < n => s[i] = assertLayout(layoutOf(cache[s[i + 1]]), UsedDefault)
         /\ n > 0 => \E d \in DefaultLayouts : s[n] = assertLayout(ret.call.arg, d)
         /\ (\A d \in DefaultLayouts : assertLayout(ret.call.arg, d) \in DOMAIN cache)
               => n > 0
         /\ (\A d \in DefaultLayouts : assertLayout(ret.call.arg, d) \notin DOMAIN cache)
               => /\ s = <<>>
                  /\ ret.kind = "render" => ret.content = PageContent

C9_Witness ==
    /\ ret.kind = "render" /\ ret.call.arg = "a" /\ "a" \in DOMAIN cache
    /\ layoutOf(cache["a"]) = "base" /\ "base" \notin DOMAIN cache
    /\ ret.stack = <<"a">> /\ ret.content = <<"a", "<page>", "a">>

C5_SameCallSameResult ==
    /\ (Returned /\ first.kind = ret.kind /\ first.call = ret.call)
          => /\ ret.stack = first.stack
             /\ ret.content = first.content
             /\ ret.locals = first.locals
    /\ ret.kind \in {"stack", "render"}
          => \A k \in DOMAIN ret.locals :
                \E i \in 1..Len(ret.stack) :
                    k \in DOMAIN cache[ret.stack[i]].data
                          \cup DOMAIN cache[ret.stack[i]].locals

\* C6: the layout stored by setLayout is the template's top-level layout when
\* it has one, else its options.layout, else its locals.layout.
C6_TopLevelLayoutWins ==
    ret.kind = "this" =>
      LET v == ret.value
          stored == cache[ret.call.arg].layout
      IN /\ v.layout # Undefined => stored = v.layout
         /\ (v.layout = Undefined /\ hasOwn(v.options, "layout"))
               => stored = v.options["layout"]
         /\ (v.layout = Undefined /\ ~hasOwn(v.options, "layout")
                                  /\ hasOwn(v.locals, "layout"))
               => stored = v.locals["layout"]

\* The data and locals of the layouts of a stack, merged in fold order.
RECURSIVE MergedData(_, _)
MergedData(c, stk) ==
    IF stk = <<>> THEN NoKeys
    ELSE LET t == c[stk[Len(stk)]]
         IN merge(MergedData(c, SubSeq(stk, 1, Len(stk) - 1)),
                  omit(merge(t.locals, t.data), omitKeys))

\* C7: the data a fold returns is the merge of the data and locals of the
\* layouts of the stack, a later layout's key over an earlier one's, and
\* holds none of the omitted keys.
C7_DataIsMergedData ==
    (ret.kind \in {"stack", "render"} /\ ret.stack # <<>>) =>
      LET d == dataOf(ret.layout)
          e == MergedData(cache, ret.stack)
      IN /\ \A k \in DOMAIN e : k \in DOMAIN d /\ d[k] = e[k]
         /\ \A k \in omitKeys : k \notin DOMAIN d

====
